---- MODULE Spec2Model ----
(***************************************************************************)
(* Model of the real-time voice pipeline of src/main.py: the /ws receive   *)
(* loop (websocket_endpoint), the per-turn response task                   *)
(* (_stream_llm_and_emit), the capped session history                      *)
(* (_append_history_with_trim) and the Murf streaming bridge               *)
(* (services/murf_ws.py: MurfWsClient) with its receiver loop.             *)
(*                                                                         *)
(* Scheduling is asyncio's: one event loop, coroutines run from one await  *)
(* to the next without interruption.  Every action below is one such run:  *)
(* it starts where a coroutine is resumed and ends where it suspends       *)
(* again.  The effect of an awaited network call (a frame written to the   *)
(* client socket or to the Murf socket) happens when the call is made; the *)
(* coroutine is then suspended until a later action resumes it.            *)
(* Task.cancel() only marks the task: the CancelledError is raised inside  *)
(* the coroutine when it is next resumed (CancelledError is a              *)
(* BaseException, so the "except Exception" handlers do not catch it).     *)
(*                                                                         *)
(* Strings are sequences of one-character strings, so that strip() and     *)
(* "".join() are computed and not assumed.                                 *)
(***************************************************************************)
EXTENDS Integers, Sequences, FiniteSets, TLC

VARIABLES
    history,                  \* Session.history
    MAX_HISTORY,              \* main.py:52, settings.MAX_CHAT_HISTORY
    MURF_API_KEY,             \* bool(settings.MURF_API_KEY)
    current_llm_task,         \* Session.current_llm_task: 0 is None, else the turn of the task
    murf_client,              \* Session.murf_client: "None" or "obj"
    murf_ws,                  \* MurfWsClient.ws: "none" (None), "open", "closed" (connection lost)
    murf_closed,              \* MurfWsClient._closed
    murf_conns,               \* connections to the Murf backend opened for the session and still open
    recv_task,                \* MurfWsClient._recv_task: "none", "running", "ended", "cancelled"
    last_murf_context_id,     \* Session.last_murf_context_id: 0 is None
    murf_streaming_for_turn,  \* Session.murf_streaming_for_turn
    tasks,                    \* the response tasks, by turn
    nturns,                   \* turns started so far
    recv_loop,                \* the receive loop of websocket_endpoint: "running", "disconnected", "failed"
    ws_out,                   \* events sent to the client by the response tasks, in order
    audio_out,                \* the audio_chunk events sent to the client, in order
    audio_rx,                 \* the frames handed to _on_audio_chunk, in order
    murf_out,                 \* messages sent to the Murf socket, in order
    append_log,               \* every call of _append_history_with_trim, in order
    tts_calls,                \* every call of tts.synthesize, in order
    streaming_mode,           \* Session.streaming_mode
    audio_file_path,          \* Session.audio_file_path is not None
    audio_bytes,              \* Session.audio_bytes
    audio_chunks,             \* Session.audio_chunks
    audio_started_at,         \* Session.audio_started_at: 0 is None
    now,                      \* time.time(), in frames received
    session,                  \* the session the receive loop's variable "session" refers to
    SESSIONS,                 \* the ids registered in SESSIONS
    store,                    \* the fields of the sessions the connection is not on
    rx_log,                   \* the frames the receive loop has handled, in order
    ctl_out,                  \* events sent to the client by the receive loop, in order
    mw,                       \* MurfWsClient used on its own: _final_events, the
                              \* wait_for_final calls, the frames read, the calls made
    stt,                      \* StreamingSTTService: transcriber, is_streaming,
                              \* session_transcriptions, the SDK objects and threads
    wm,                       \* WebSocketManager: active_connections,
                              \* session_connections, connection_metadata, last call
    llm                       \* a call of llm.stream_chat or llm.complete: prompt,
                              \* history and the messages sent to the model

vars == <<history, MAX_HISTORY, MURF_API_KEY, current_llm_task, murf_client, murf_ws,
          murf_closed, murf_conns, recv_task, last_murf_context_id, murf_streaming_for_turn, tasks,
          nturns, recv_loop, ws_out, audio_out, audio_rx, murf_out, append_log,
          tts_calls, streaming_mode, audio_file_path, audio_bytes, audio_chunks,
          audio_started_at, now, session, SESSIONS, store, rx_log, ctl_out, mw, stt, wm, llm>>

(***************************************************************************)
(* Bounds and inputs                                                       *)
(***************************************************************************)
MaxTurns == 2
MaxTokens == 2
MaxAppends == 4
MaxCap == 3
MaxSessions == 2
MaxFrames == 1
MaxBinary == 3
MaxTurnEnds == 3
MaxMurfFrames == 2
MaxMurfCalls == 2
MaxSttEvents == 2
MaxSttChunks == 1
MaxSttStops == 1
MaxSttRepeats == 1
MaxSockets == 2
MaxLlmHistory == 3

DefaultMaxHistory == 10

\* the i-th token a model stream yields; the code never looks into a token
TokenAt(i) == IF i % 2 = 1 THEN <<"a">> ELSE <<"b", "c">>
Transcripts == { <<>>, <<" ">>, <<" ", "h", "i", " ">> }
Turns == 1..MaxTurns
ExcKinds == {"RuntimeError", "Other"}
HistoryCaps == (-1)..MaxCap
HistRoles == {"user", "assistant"}
HistContents == { <<"x">>, <<"y">> }
SessionIds == 1..MaxSessions
\* text frames other than turn_end: unparseable, a JSON value that is not an
\* object (it has no type), or a JSON object with its type
TextFrames == { [json |-> FALSE, type |-> "-", arg |-> "-"] }
                  \cup { [json |-> TRUE, type |-> "-", arg |-> "[]"] }
                  \cup [json : {TRUE}, type : {"text", "None"}, arg : {"hi"}]
                  \cup [json : {TRUE}, type : {"streaming_mode"},
                        arg : {"absent", "true", "false", "0", "off"}]
                  \cup [json : {TRUE}, type : {"session_create"}, arg : {"-"}]
                  \cup [json : {TRUE}, type : {"session_join"}, arg : {"absent", "1", "2"}]
ControlFrames == { f \in TextFrames :
                      f.json /\ f.type \in {"text", "session_create", "session_join"} }
\* lengths of binary frames
FrameSizes == {0, 100, 150, 200}

(***************************************************************************)
(* Pure helpers                                                            *)
(***************************************************************************)
RECURSIVE LStrip(_)
LStrip(s) == IF s # <<>> /\ Head(s) = " " THEN LStrip(Tail(s)) ELSE s

RECURSIVE RStrip(_)
RStrip(s) == IF s # <<>> /\ s[Len(s)] = " " THEN RStrip(SubSeq(s, 1, Len(s) - 1)) ELSE s

Strip(s) == RStrip(LStrip(s))

RECURSIVE Join(_)
Join(toks) == IF toks = <<>> THEN <<>> ELSE Head(toks) \o Join(Tail(toks))

TrimKeepsHead(h, cap, entry) ==
    LET h2 == Append(h, entry)
    IN  IF cap > 0 /\ Len(h2) > cap THEN SubSeq(h2, 1, cap) ELSE h2

TrimAppend(h, cap, entry) ==
    LET h2 == Append(h, entry)
    IN  IF cap > 0 /\ Len(h2) > cap THEN SubSeq(h2, Len(h2) - cap + 1, Len(h2)) ELSE h2

NoTask == [pc |-> "none", cancel_req |-> FALSE, prompt |-> <<>>, assembled |-> <<>>,
           exhausted |-> FALSE, failed |-> FALSE, sess |-> 0,
           turn_context_id |-> 0]

TaskDone(task) == task.pc \in {"done", "cancelled"}

Suspended == {"new", "connect", "clear", "llm", "tok_ws", "tok_murf", "complete_ws",
              "end_murf", "tts_ws", "err_ws"}

(***************************************************************************)
(* The state as one record, so that the straight-line code between two     *)
(* awaits composes as function application.                                *)
(***************************************************************************)
Cur == [history |-> history, MAX_HISTORY |-> MAX_HISTORY, MURF_API_KEY |-> MURF_API_KEY,
        current_llm_task |-> current_llm_task, murf_client |-> murf_client,
        murf_ws |-> murf_ws, murf_closed |-> murf_closed, murf_conns |-> murf_conns,
        recv_task |-> recv_task,
        last_murf_context_id |-> last_murf_context_id,
        murf_streaming_for_turn |-> murf_streaming_for_turn, tasks |-> tasks,
        nturns |-> nturns, recv_loop |-> recv_loop, ws_out |-> ws_out,
        audio_out |-> audio_out, audio_rx |-> audio_rx, murf_out |-> murf_out,
        append_log |-> append_log, tts_calls |-> tts_calls,
        streaming_mode |-> streaming_mode, audio_file_path |-> audio_file_path,
        audio_bytes |-> audio_bytes, audio_chunks |-> audio_chunks,
        audio_started_at |-> audio_started_at, now |-> now, session |-> session,
        SESSIONS |-> SESSIONS, store |-> store, rx_log |-> rx_log, ctl_out |-> ctl_out,
        mw |-> mw, stt |-> stt, wm |-> wm, llm |-> llm]

Commit(s) ==
    /\ history' = s.history
    /\ MAX_HISTORY' = s.MAX_HISTORY
    /\ MURF_API_KEY' = s.MURF_API_KEY
    /\ current_llm_task' = s.current_llm_task
    /\ murf_client' = s.murf_client
    /\ murf_ws' = s.murf_ws
    /\ murf_closed' = s.murf_closed
    /\ murf_conns' = s.murf_conns
    /\ recv_task' = s.recv_task
    /\ last_murf_context_id' = s.last_murf_context_id
    /\ murf_streaming_for_turn' = s.murf_streaming_for_turn
    /\ tasks' = s.tasks
    /\ nturns' = s.nturns
    /\ recv_loop' = s.recv_loop
    /\ ws_out' = s.ws_out
    /\ audio_out' = s.audio_out
    /\ audio_rx' = s.audio_rx
    /\ murf_out' = s.murf_out
    /\ append_log' = s.append_log
    /\ tts_calls' = s.tts_calls
    /\ streaming_mode' = s.streaming_mode
    /\ audio_file_path' = s.audio_file_path
    /\ audio_bytes' = s.audio_bytes
    /\ audio_chunks' = s.audio_chunks
    /\ audio_started_at' = s.audio_started_at
    /\ now' = s.now
    /\ session' = s.session
    /\ SESSIONS' = s.SESSIONS
    /\ store' = s.store
    /\ rx_log' = s.rx_log
    /\ ctl_out' = s.ctl_out
    /\ mw' = s.mw
    /\ stt' = s.stt
    /\ wm' = s.wm
    /\ llm' = s.llm

WsUp(s) == s.recv_loop = "running"

\* Session.__init__
FreshSession ==
    [history |-> <<>>, current_llm_task |-> 0, murf_client |-> "None", murf_ws |-> "none",
     murf_closed |-> FALSE, murf_conns |-> 0, recv_task |-> "none",
     last_murf_context_id |-> 0,
     murf_streaming_for_turn |-> FALSE, streaming_mode |-> TRUE,
     audio_file_path |-> FALSE, audio_bytes |-> 0, audio_chunks |-> 0,
     audio_started_at |-> 0]

SessionFields(s) ==
    [history |-> s.history, current_llm_task |-> s.current_llm_task,
     murf_client |-> s.murf_client, murf_ws |-> s.murf_ws, murf_closed |-> s.murf_closed,
     murf_conns |-> s.murf_conns,
     recv_task |-> s.recv_task, last_murf_context_id |-> s.last_murf_context_id,
     murf_streaming_for_turn |-> s.murf_streaming_for_turn,
     streaming_mode |-> s.streaming_mode, audio_file_path |-> s.audio_file_path,
     audio_bytes |-> s.audio_bytes, audio_chunks |-> s.audio_chunks,
     audio_started_at |-> s.audio_started_at]

\* the fields of session object sid
SessionOf(s, sid) == IF sid = s.session THEN SessionFields(s) ELSE s.store[sid]

\* make sid the session whose fields are held in the state's own fields; the
\* fields of the session left go to the store
Focus(s, sid) ==
    IF sid = s.session
    THEN s
    ELSE LET tgt == s.store[sid]
         IN  [s EXCEPT !.store = [@ EXCEPT ![s.session] = SessionFields(s),
                                           ![sid] = FreshSession],
                       !.session = sid,
                       !.history = tgt.history,
                       !.current_llm_task = tgt.current_llm_task,
                       !.murf_client = tgt.murf_client,
                       !.murf_ws = tgt.murf_ws,
                       !.murf_closed = tgt.murf_closed,
                       !.murf_conns = tgt.murf_conns,
                       !.recv_task = tgt.recv_task,
                       !.last_murf_context_id = tgt.last_murf_context_id,
                       !.murf_streaming_for_turn = tgt.murf_streaming_for_turn,
                       !.streaming_mode = tgt.streaming_mode,
                       !.audio_file_path = tgt.audio_file_path,
                       !.audio_bytes = tgt.audio_bytes,
                       !.audio_chunks = tgt.audio_chunks,
                       !.audio_started_at = tgt.audio_started_at]


WsEmit(s, type, t, text) ==
    [s EXCEPT !.ws_out = Append(@, [type |-> type, turn |-> t, text |-> text])]

\* a message written to the Murf socket by task t
MurfSend(s, t, ctx, kind, text) ==
    [s EXCEPT !.murf_out = Append(@, [ctx |-> ctx, kind |-> kind, text |-> text, by |-> t])]

SetPc(s, t, pc) == [s EXCEPT !.tasks[t].pc = pc]

\* _append_history_with_trim; the turn is recorded in append_log only
append_history_with_trim(s, role, content, t) ==
    [s EXCEPT !.history = TrimAppend(@, s.MAX_HISTORY, [role |-> role, content |-> content]),
              !.append_log = Append(@, [role |-> role, content |-> content, turn |-> t])]

(***************************************************************************)
(* _stream_llm_and_emit, from the last statement to the first              *)
(***************************************************************************)
\* except Exception: send the error event, swallowing a failure of the send
OnExceptionSilent(s, t) == SetPc(s, t, "done")

OnException(s, t) ==
    IF WsUp(s)
    THEN SetPc(WsEmit(s, "error", t, <<"llm_stream_failed">>), t, "err_ws")
    ELSE SetPc(s, t, "done")

\* last_murf_context_id update and the fallback synthesis. tts.synthesize has no
\* await that suspends; audio says whether it returned any bytes.
FinalPhase(s, t, audio) ==
    LET s1 == [s EXCEPT !.last_murf_context_id = s.tasks[t].turn_context_id]
        s2 == [s1 EXCEPT !.tts_calls = Append(@, [turn |-> t, text |-> Join(s1.tasks[t].assembled)])]
    IN  IF s1.murf_streaming_for_turn
        THEN SetPc(s1, t, "done")
        ELSE IF audio /\ WsUp(s2)
             THEN SetPc(WsEmit(s2, "tts_audio", t, <<>>), t, "tts_ws")
             ELSE SetPc(s2, t, "done")

\* the end signal; a send on a socket that is not open raises and is logged
EndPhase(s, t, audio) ==
    IF s.murf_client = "obj" /\ s.murf_ws = "open"
    THEN SetPc(MurfSend(s, t, s.tasks[t].turn_context_id, "end", <<>>), t, "end_murf")
    ELSE FinalPhase(s, t, audio)

\* final_text, the assistant entry and the llm_complete event
CompletePhase(s, t, audio, exc) ==
    LET text == Join(s.tasks[t].assembled)
        s1 == append_history_with_trim(s, "assistant", text, t)
    IN  IF WsUp(s1)
        THEN SetPc(WsEmit(s1, "llm_complete", t, text), t, "complete_ws")
        ELSE IF exc = "RuntimeError" THEN EndPhase(s1, t, audio) ELSE OnException(s1, t)

\* the loop body up to the llm_token send
OnTokenForwardsFirst(s, t, tok, audio, exc) ==
    LET s1 == [s EXCEPT !.tasks[t].assembled = Append(@, tok)]
    IN  IF s1.murf_client = "obj" /\ s1.murf_ws = "open"
        THEN SetPc(MurfSend(s1, t, s1.tasks[t].turn_context_id, "text", tok), t, "tok_ws")
        ELSE SetPc(s1, t, "tok_ws")

OnTokenAppendsEntry(s, t, tok, audio, exc) ==
    LET s1 == append_history_with_trim([s EXCEPT !.tasks[t].assembled = Append(@, tok)],
                                       "assistant", tok, t)
    IN  IF WsUp(s1)
        THEN SetPc(WsEmit(s1, "llm_token", t, tok), t, "tok_ws")
        ELSE IF exc = "RuntimeError" THEN CompletePhase(s1, t, audio, exc) ELSE OnException(s1, t)

OnToken(s, t, tok, audio, exc) ==
    LET s1 == [s EXCEPT !.tasks[t].assembled = Append(@, tok)]
    IN  IF WsUp(s1)
        THEN SetPc(WsEmit(s1, "llm_token", t, tok), t, "tok_ws")
        ELSE IF exc = "RuntimeError" THEN CompletePhase(s1, t, audio, exc) ELSE OnException(s1, t)

\* the loop body after the llm_token send: forward the token, then ask for the next
ForwardTokenUnderLastContext(s, t) ==
    LET tok == s.tasks[t].assembled[Len(s.tasks[t].assembled)]
        ctx == IF s.last_murf_context_id # 0 THEN s.last_murf_context_id
               ELSE s.tasks[t].turn_context_id
    IN  IF s.murf_client = "obj" /\ s.murf_ws = "open"
        THEN SetPc(MurfSend(s, t, ctx, "text", tok), t, "tok_murf")
        ELSE SetPc(s, t, "llm")

ForwardToken(s, t) ==
    LET tok == s.tasks[t].assembled[Len(s.tasks[t].assembled)]
    IN  IF s.murf_client = "obj" /\ s.murf_ws = "open"
        THEN SetPc(MurfSend(s, t, s.tasks[t].turn_context_id, "text", tok), t, "tok_murf")
        ELSE SetPc(s, t, "llm")

\* reset of the per-turn indicator and the call of llm.stream_chat
StartStream(s, t) == SetPc([s EXCEPT !.murf_streaming_for_turn = FALSE], t, "llm")

\* "turn_<milliseconds>_<six hex digits of a uuid4>": taken to be an id no
\* other turn has, and written as the number of the turn
NewContextId(t) == t

\* turn_context_id and the clear of the previous context
ClearPhase(s, t) ==
    LET s1 == [s EXCEPT !.tasks[t].turn_context_id = NewContextId(t)]
    IN  IF s1.murf_client = "obj" /\ s1.last_murf_context_id # 0 /\ s1.murf_ws = "open"
        THEN SetPc(MurfSend(s1, t, s1.last_murf_context_id, "clear", <<>>), t, "clear")
        ELSE StartStream(s1, t)

\* Murf client initialisation up to the await of connect()
BeginTaskAlwaysConnects(s, t) ==
    IF s.MURF_API_KEY
    THEN SetPc([s EXCEPT !.murf_client = "obj", !.murf_ws = "none", !.recv_task = "none",
                         !.murf_closed = FALSE],
               t, "connect")
    ELSE ClearPhase(s, t)

BeginTask(s, t) ==
    IF s.MURF_API_KEY /\ s.murf_client = "None"
    THEN SetPc([s EXCEPT !.murf_client = "obj", !.murf_ws = "none", !.recv_task = "none",
                         !.murf_closed = FALSE],
               t, "connect")
    ELSE ClearPhase(s, t)

\* connect() returned or raised; start_receiver creates the receiver task,
\* whose loop ends at once when close() has been called in the meantime
AfterConnect(s, t, ok) ==
    IF ok
    THEN ClearPhase([s EXCEPT !.murf_ws = "open",
                              !.murf_conns = @ + 1,
                              !.recv_task = IF s.murf_closed THEN "ended" ELSE "running"], t)
    ELSE ClearPhase([s EXCEPT !.murf_client = "None", !.murf_ws = "none"], t)

(***************************************************************************)
(* websocket_endpoint                                                      *)
(***************************************************************************)
\* the turn_end branch
TurnEndUnstripped(s, transcript) ==
    LET t == s.nturns + 1
        cur == s.current_llm_task
        s1 == append_history_with_trim(s, "user", transcript, t)
        s2 == IF cur # 0 /\ ~TaskDone(s1.tasks[cur])
              THEN [s1 EXCEPT !.tasks[cur].cancel_req = TRUE]
              ELSE s1
    IN  IF transcript = <<>>
        THEN s
        ELSE [s2 EXCEPT !.tasks[t] = [NoTask EXCEPT !.pc = "new", !.prompt = transcript,
                                                    !.sess = s.session],
                        !.current_llm_task = t,
                        !.nturns = t]

TurnEnd(s, transcript) ==
    LET tr == Strip(transcript)
        t == s.nturns + 1
        cur == s.current_llm_task
        s1 == append_history_with_trim(s, "user", tr, t)
        s2 == IF cur # 0 /\ ~TaskDone(s1.tasks[cur])
              THEN [s1 EXCEPT !.tasks[cur].cancel_req = TRUE]
              ELSE s1
    IN  IF tr = <<>>
        THEN s
        ELSE [s2 EXCEPT !.tasks[t] = [NoTask EXCEPT !.pc = "new", !.prompt = tr,
                                                    !.sess = s.session],
                        !.current_llm_task = t,
                        !.nturns = t]

\* MurfWsClient.close
Close(s) ==
    [s EXCEPT !.murf_closed = TRUE,
              !.murf_conns = IF s.murf_ws = "open" THEN @ - 1 ELSE @,
              !.murf_ws = "none",
              !.recv_task = IF @ = "running" THEN "cancelled" ELSE @]

\* WebSocketDisconnect: the loop ends and the Murf client of the session the
\* loop is on is closed
Disconnect(s) ==
    LET s1 == [s EXCEPT !.recv_loop = "disconnected"]
    IN  IF s1.murf_client = "obj" THEN Close(s1) ELSE s1

\* a frame that json.loads turns into something other than a dict
NonObject(frame) == frame.json /\ frame.type = "-"

\* an event the receive loop sends to the client
CtlEmit(s, type, msg, chunks, bytes, duration) ==
    [s EXCEPT !.ctl_out = Append(@, [type |-> type, msg |-> msg, chunks |-> chunks,
                                     bytes |-> bytes, duration |-> duration])]

\* json.JSONDecodeError: the invalid_json reply, then the next frame
InvalidJson(s) == CtlEmit(s, "error", <<"invalid_json">>, 0, 0, 0)

\* except Exception of websocket_endpoint: the server_error event, the Murf
\* client of the session the loop is on is closed, and the endpoint returns
ServerError(s) ==
    LET s1 == [CtlEmit(s, "error", <<"server_error">>, 0, 0, 0) EXCEPT !.recv_loop = "failed"]
    IN  IF s1.murf_client = "obj" THEN Close(s1) ELSE s1

\* the else branch: a type that is none of the control messages
UnknownTypeSilent(s, type) == s

UnknownType(s, type) == CtlEmit(s, "error", <<"unknown_type:", type>>, 0, 0, 0)

\* bool(payload.get("on", True)) for an absent key, true, false, the number 0
\* and a non-empty string
PyBool(arg) == arg \notin {"false", "0"}

\* the streaming_mode branch
StreamingMode(s, arg) ==
    LET s1 == [s EXCEPT !.streaming_mode = PyBool(arg)]
    IN  CtlEmit(s1, "streaming_mode", << IF s1.streaming_mode THEN "on" ELSE "off" >>, 0, 0, 0)

\* a session object can be held under id sid: it is registered, or the id has
\* never had an object
CanHold(s, sid) ==
    \/ sid \in s.SESSIONS
    \/ sid # s.session /\ s.store[sid] = FreshSession

UnusedIds(s) == { sid \in SessionIds : sid \notin s.SESSIONS /\ CanHold(s, sid) }

\* get_or_create_session: sid 0 stands for no id, which gives a new uuid4
get_or_create_replaces(s, sid) ==
    LET id == IF sid = 0 THEN CHOOSE n \in UnusedIds(s) : \A m \in UnusedIds(s) : n <= m
              ELSE sid
        s1 == Focus([s EXCEPT !.SESSIONS = @ \cup {id}], id)
    IN  [s1 EXCEPT !.history = <<>>, !.current_llm_task = 0]

get_or_create_session(s, sid) ==
    LET id == IF sid = 0 THEN CHOOSE n \in UnusedIds(s) : \A m \in UnusedIds(s) : n <= m
              ELSE sid
    IN  Focus([s EXCEPT !.SESSIONS = @ \cup {id}], id)

\* the session_create branch
SessionCreate(s) ==
    LET s1 == get_or_create_session(s, 0)
    IN  CtlEmit(s1, "session_created", <<"session">>, s1.session, 0, 0)

\* the session_join branch; requested is 0 when the payload names no session
SessionJoin(s, requested) ==
    LET s1 == get_or_create_session(s, requested)
    IN  CtlEmit(s1, "session_joined", <<"session">>, s1.session, 0, 0)

RequestedId(arg) == IF arg = "1" THEN 1 ELSE IF arg = "2" THEN 2 ELSE 0

\* a text frame other than turn_end, from json.loads to the end of the branch
OnText(s, frame) ==
    LET s1 == [s EXCEPT !.rx_log = Append(@, [kind |-> "text", json |-> frame.json,
                                              type |-> frame.type, arg |-> frame.arg,
                                              len |-> 0, sess |-> s.session,
                                              mode |-> s.streaming_mode])]
    IN  IF ~frame.json THEN InvalidJson(s1)
        ELSE IF NonObject(frame) THEN ServerError(s1)
        ELSE IF frame.type = "session_create" THEN SessionCreate(s1)
        ELSE IF frame.type = "session_join" THEN SessionJoin(s1, RequestedId(frame.arg))
        ELSE IF frame.type = "streaming_mode" THEN StreamingMode(s1, frame.arg)
        ELSE UnknownType(s1, frame.type)

\* a binary frame of n bytes; time.time() has advanced by one since the last
OnBytesReportsFrame(s, n) ==
    LET s0 == [s EXCEPT !.now = @ + 1,
                        !.rx_log = Append(@, [kind |-> "bytes", json |-> FALSE, type |-> "-",
                                              arg |-> "-", len |-> n, sess |-> s.session,
                                              mode |-> s.streaming_mode])]
        s2 == [s0 EXCEPT !.audio_chunks = @ + 1, !.audio_bytes = @ + n,
                         !.audio_file_path = TRUE]
    IN  IF s0.streaming_mode
        THEN CtlEmit(s2, "streaming_progress", <<>>, s2.audio_chunks, n, 0)
        ELSE s0

OnBytes(s, n) ==
    LET s0 == [s EXCEPT !.now = @ + 1,
                        !.rx_log = Append(@, [kind |-> "bytes", json |-> FALSE, type |-> "-",
                                              arg |-> "-", len |-> n, sess |-> s.session,
                                              mode |-> s.streaming_mode])]
        s1 == IF ~s0.audio_file_path
              THEN [s0 EXCEPT !.audio_started_at = s0.now, !.audio_file_path = TRUE]
              ELSE s0
        s2 == [s1 EXCEPT !.audio_chunks = @ + 1, !.audio_bytes = @ + n]
        duration == IF s2.audio_started_at # 0 THEN s2.now - s2.audio_started_at ELSE 0
    IN  IF s0.streaming_mode
        THEN CtlEmit(s2, "streaming_progress", <<>>, s2.audio_chunks, s2.audio_bytes, duration)
        ELSE s0

\* DELETE /session/{session_id}
delete_session(s, sid) == [s EXCEPT !.SESSIONS = @ \ {sid}]

(***************************************************************************)
(* MurfWsClient._recv_loop with _on_audio_chunk as its callback.  The      *)
(* send_lock of the callback is held only across one ws.send_text, whose   *)
(* effect is immediate here, so the lock never delays a step.              *)
(***************************************************************************)
OnFrameDropsOtherContexts(s, frame) ==
    LET s1 == [s EXCEPT !.audio_rx = Append(@, frame),
                        !.murf_streaming_for_turn = TRUE]
        cur == s.current_llm_task
    IN  IF WsUp(s1) /\ cur # 0 /\ frame.ctx = s.tasks[cur].turn_context_id
        THEN [s1 EXCEPT !.audio_out = Append(@, frame)]
        ELSE s1

OnFrame(s, frame) ==
    LET s1 == [s EXCEPT !.audio_rx = Append(@, frame),
                        !.murf_streaming_for_turn = TRUE]
    IN  IF WsUp(s1) THEN [s1 EXCEPT !.audio_out = Append(@, frame)] ELSE s1

\* ws.recv() raises in _recv_loop, which logs the error and ends
RecvLoopError(s) ==
    [s EXCEPT !.murf_ws = "closed",
              !.murf_conns = IF s.murf_ws = "open" THEN @ - 1 ELSE @,
              !.recv_task = IF @ = "running" THEN "ended" ELSE @]

(***************************************************************************)
(* MurfWsClient used on its own.  _final_events holds per context_id       *)
(* "none" (no Event), "clear" (an Event that is not set) or "set".         *)
(***************************************************************************)
MurfCall(s, op, ret) == [s EXCEPT !.mw.calls = Append(@, [op |-> op, ret |-> ret])]

\* MurfWsClient.__init__
MurfNew(s) ==
    MurfCall([s EXCEPT !.murf_client = "obj", !.murf_ws = "none", !.recv_task = "none",
                       !.murf_closed = FALSE],
             "new", "ok")

\* MurfWsClient.connect: websockets.connect returns a connection or raises
MurfConnect(s, ok) ==
    IF ok
    THEN MurfCall([s EXCEPT !.murf_ws = "open", !.murf_conns = @ + 1], "connect", "ok")
    ELSE MurfCall(s, "connect", "raised")

\* MurfWsClient.start_receiver
MurfStartReceiver(s) ==
    IF s.murf_ws = "none" THEN MurfCall(s, "start_receiver", "raised")
    ELSE IF s.recv_task = "running" THEN MurfCall(s, "start_receiver", "ok")
    ELSE MurfCall([s EXCEPT !.recv_task = IF s.murf_closed THEN "ended" ELSE "running"],
                  "start_receiver", "ok")

\* MurfWsClient.close; ws_raises says whether ws.close() raises
MurfCloseLeaks(s, ws_raises) ==
    IF ws_raises /\ s.murf_ws # "none"
    THEN MurfCall([s EXCEPT !.murf_closed = TRUE,
                            !.recv_task = IF @ = "running" THEN "cancelled" ELSE @],
                  "close", "raised")
    ELSE MurfCall(Close(s), "close", "ok")

MurfClose(s, ws_raises) == MurfCall(Close(s), "close", "ok")

\* _recv_loop: one frame read; a final frame sets the Event of its context_id
\* when there is one
OnMurfFrameSetsAll(s, frame) ==
    LET s1 == [s EXCEPT !.mw.frames = Append(@, frame)]
    IN  IF frame.final
        THEN [s1 EXCEPT !.mw.final_events =
                            [c \in Turns |-> IF @[c] = "none" THEN "none" ELSE "set"]]
        ELSE s1

OnMurfFrame(s, frame) ==
    LET s1 == [s EXCEPT !.mw.frames = Append(@, frame)]
    IN  IF frame.final /\ s1.mw.final_events[frame.ctx] # "none"
        THEN [s1 EXCEPT !.mw.final_events[frame.ctx] = "set"]
        ELSE s1

\* wait_for_final up to the await: the Event is looked up or created; late
\* keeps the context ids whose final frame had been read before the call
WaitForFinal(s, ctx) ==
    [s EXCEPT !.mw.final_events[ctx] = IF @ = "none" THEN "clear" ELSE @,
              !.mw.waits[ctx] = "waiting",
              !.mw.late = IF \E i \in 1..Len(s.mw.frames) :
                                 s.mw.frames[i].final /\ s.mw.frames[i].ctx = ctx
                          THEN @ \cup {ctx} ELSE @]

\* asyncio.wait_for returns: the Event was set, or the timeout has elapsed
WaitDone(s, ctx, timed_out) ==
    [s EXCEPT !.mw.waits[ctx] = IF timed_out THEN "false" ELSE "true"]

(***************************************************************************)
(* StreamingSTTService.  The service holds ONE transcriber and ONE          *)
(* is_streaming flag (0 stands for None); objs are the RealtimeTranscriber  *)
(* objects created so far, each with the session its callbacks were made    *)
(* for; threads[k] is the start_transcriber thread started with object k.   *)
(* writes records which thread assigned which attribute of the service.     *)
(***************************************************************************)
SttObjs == 1..MaxSessions

SttWrite(s, var, thread) ==
    [s EXCEPT !.stt.writes = @ \cup {[var |-> var, thread |-> thread]}]

\* start_streaming_session up to asyncio.sleep(0.5)
SttStart(s, sid) ==
    LET k == CHOOSE j \in SttObjs :
                 /\ s.stt.objs[j].state = "unused"
                 /\ \A i \in SttObjs : i < j => s.stt.objs[i].state # "unused"
        s1 == [s EXCEPT !.stt.session_transcriptions[sid] = [present |-> TRUE, items |-> <<>>],
                        !.stt.transcriber = k,
                        !.stt.objs[k] = [sess |-> sid, state |-> "new"],
                        !.stt.threads[k] = "start",
                        !.stt.starts[sid] = "sleeping"]
    IN  SttWrite(SttWrite(s1, "session_transcriptions", "loop"), "transcriber", "loop")

\* start_transcriber, first statement: self.transcriber.connect() on the
\* object self.transcriber names when the thread runs
SttThreadConnect(s, k, ok) ==
    IF ok
    THEN [s EXCEPT !.stt.objs[s.stt.transcriber].state = "connected",
                   !.stt.threads[k] = "connected"]
    ELSE [s EXCEPT !.stt.threads[k] = "failed"]

\* start_transcriber, the assignment of self.is_streaming
SttThreadFlag(s, k) ==
    SttWrite([s EXCEPT !.stt.is_streaming = (s.stt.threads[k] = "connected"),
                       !.stt.threads[k] = "done"],
             "is_streaming", "connect")

\* start_streaming_session after the sleep: return self.is_streaming
SttStartReturns(s, sid) ==
    [s EXCEPT !.stt.starts[sid] = IF s.stt.is_streaming THEN "true" ELSE "false"]

SttSchedule(s, cb, sid, text, ev) ==
    [s EXCEPT !.stt.queue = Append(@, [cb |-> cb, sess |-> sid, text |-> text, ev |-> ev])]

\* on_data, called by the SDK in its own thread with one transcript
OnDataTurnFirst(s, k, kind, text) ==
    LET sid == s.stt.objs[k].sess
        live == s.stt.session_transcriptions[sid].present
        s1 == [s EXCEPT !.stt.events = Append(@, [sess |-> sid, kind |-> kind, text |-> text,
                                                  live |-> live])]
        ev == Len(s1.stt.events)
    IN  IF Strip(text) = <<>> THEN s1
        ELSE IF kind = "PartialTranscript" THEN SttSchedule(s1, "partial", sid, text, ev)
        ELSE IF ~live THEN s1
        ELSE LET s2 == SttWrite([s1 EXCEPT !.stt.session_transcriptions[sid].items =
                                               Append(@, text)],
                                "session_transcriptions", "sdk")
             IN  SttSchedule(SttSchedule(s2, "turn", sid, text, ev), "final", sid, text, ev)

on_data(s, k, kind, text) ==
    LET sid == s.stt.objs[k].sess
        live == s.stt.session_transcriptions[sid].present
        s1 == [s EXCEPT !.stt.events = Append(@, [sess |-> sid, kind |-> kind, text |-> text,
                                                  live |-> live])]
        ev == Len(s1.stt.events)
    IN  IF Strip(text) = <<>> THEN s1
        ELSE IF kind = "PartialTranscript" THEN SttSchedule(s1, "partial", sid, text, ev)
        ELSE IF ~live THEN s1
        ELSE LET s2 == SttWrite([s1 EXCEPT !.stt.session_transcriptions[sid].items =
                                               Append(@, text)],
                                "session_transcriptions", "sdk")
             IN  SttSchedule(SttSchedule(s2, "final", sid, text, ev), "turn", sid, text, ev)

\* the event loop runs the callback scheduled first
SttRunCallback(s) ==
    [s EXCEPT !.stt.delivered = Append(@, Head(s.stt.queue)),
              !.stt.queue = Tail(@)]

\* stream_audio_chunk; sent_by is the send method that did not raise
\* ("none": stream, send_audio and send all raised); to is the transcriber
\* the send methods were called on (0: none was called), active whether any
\* connection to the backend is open when the call is made
stream_audio_chunk(s, sid, sent_by) ==
    LET active == \E k \in SttObjs : s.stt.objs[k].state = "connected"
    IN  IF ~s.stt.is_streaming \/ s.stt.transcriber = 0
        THEN [s EXCEPT !.stt.audio = Append(@, [sess |-> sid, ret |-> FALSE, to |-> 0,
                                               active |-> active])]
        ELSE [s EXCEPT !.stt.audio =
                           Append(@, [sess |-> sid, ret |-> (sent_by # "none"),
                                      to |-> s.stt.transcriber, active |-> active])]

\* stop_streaming_session; close_ok says whether transcriber.close() returns
stop_streaming_session(s, sid, close_ok) ==
    IF s.stt.transcriber # 0 /\ ~close_ok
    THEN [s EXCEPT !.stt.stops = Append(@, [sess |-> sid, ret |-> "error", items |-> <<>>])]
    ELSE LET s1 == IF s.stt.transcriber # 0
                   THEN SttWrite([s EXCEPT !.stt.objs[s.stt.transcriber].state = "closed",
                                           !.stt.is_streaming = FALSE],
                                 "is_streaming", "loop")
                   ELSE s
             st == s1.stt.session_transcriptions[sid]
             s2 == [s1 EXCEPT !.stt.stops =
                                  Append(@, [sess |-> sid, ret |-> "summary",
                                             items |-> IF st.present THEN st.items ELSE <<>>])]
         IN  IF st.present
             THEN SttWrite([s2 EXCEPT !.stt.session_transcriptions[sid] =
                                          [present |-> FALSE, items |-> <<>>]],
                           "session_transcriptions", "loop")
             ELSE s2

(***************************************************************************)
(* WebSocketManager.  session_connections is a dict: a sequence of         *)
(* [id, conns] in insertion order.  connection_metadata[w] is -1 (no entry) *)
(* or the session_id kept for w (0 for None).  last is the call made last. *)
(***************************************************************************)
Sockets == 1..MaxSockets

NoCall == [op |-> "none", ws |-> 0, raised |-> FALSE, attempted |-> {}]

WmCall(s, op, ws, raised, attempted) ==
    [s EXCEPT !.wm.last = [op |-> op, ws |-> ws, raised |-> raised, attempted |-> attempted]]

\* index of the first session, in dict order, whose set holds ws (0: none)
FirstSessionOf(sc, ws) ==
    IF \E i \in 1..Len(sc) : ws \in sc[i].conns
    THEN CHOOSE i \in 1..Len(sc) :
             /\ ws \in sc[i].conns
             /\ \A j \in 1..(i - 1) : ws \notin sc[j].conns
    ELSE 0

KeyIndex(sc, sid) ==
    IF \E i \in 1..Len(sc) : sc[i].id = sid
    THEN CHOOSE i \in 1..Len(sc) : sc[i].id = sid
    ELSE 0

DelKey(sc, i) == SubSeq(sc, 1, i - 1) \o SubSeq(sc, i + 1, Len(sc))

\* WebSocketManager.connect
manager_connect(s, ws) ==
    [s EXCEPT !.wm.active_connections = @ \cup {ws},
              !.wm.connection_metadata[ws] = 0]

\* WebSocketManager.disconnect
disconnect(s, ws) ==
    LET sc == s.wm.session_connections
        i == FirstSessionOf(sc, ws)
        sc1 == IF i = 0 THEN sc
               ELSE IF sc[i].conns = {ws} THEN DelKey(sc, i)
               ELSE [sc EXCEPT ![i].conns = @ \ {ws}]
    IN  [s EXCEPT !.wm.active_connections = @ \ {ws},
                  !.wm.session_connections = sc1,
                  !.wm.connection_metadata[ws] = -1]

\* WebSocketManager.add_to_session
add_to_session(s, ws, sid) ==
    LET sc == s.wm.session_connections
        i == KeyIndex(sc, sid)
        sc1 == IF i = 0 THEN Append(sc, [id |-> sid, conns |-> {ws}])
               ELSE [sc EXCEPT ![i].conns = @ \cup {ws}]
    IN  [s EXCEPT !.wm.session_connections = sc1,
                  !.wm.connection_metadata[ws] = IF @ = -1 THEN @ ELSE sid]

\* WebSocketManager.remove_from_session
remove_from_session(s, ws, sid) ==
    LET sc == s.wm.session_connections
        i == KeyIndex(sc, sid)
        sc1 == IF i = 0 THEN sc
               ELSE IF sc[i].conns \ {ws} = {} THEN DelKey(sc, i)
               ELSE [sc EXCEPT ![i].conns = @ \ {ws}]
    IN  [s EXCEPT !.wm.session_connections = sc1,
                  !.wm.connection_metadata[ws] = IF @ = -1 THEN @ ELSE 0]

\* WebSocketManager.send_message; ok says whether websocket.send_text returns
send_message(s, ws, ok) == IF ok THEN s ELSE disconnect(s, ws)

\* WebSocketManager.broadcast_message.  order is the order in which the set
\* active_connections is iterated, fails the sockets whose send_text raises.
\* A failed send makes send_message remove the socket from the set being
\* iterated, so the next step of the for loop raises RuntimeError.
FirstFailure(order, exclude, fails) ==
    IF \E i \in 1..Len(order) : order[i] # exclude /\ order[i] \in fails
    THEN CHOOSE i \in 1..Len(order) :
             /\ order[i] # exclude /\ order[i] \in fails
             /\ \A j \in 1..(i - 1) : ~(order[j] # exclude /\ order[j] \in fails)
    ELSE 0

broadcast_message(s, order, exclude, fails) ==
    LET k == FirstFailure(order, exclude, fails)
        upto == IF k = 0 THEN Len(order) ELSE k
        attempted == {order[i] : i \in 1..upto} \ {exclude}
    IN  IF k = 0 THEN WmCall(s, "broadcast_message", exclude, FALSE, attempted)
        ELSE WmCall(send_message(s, order[k], FALSE), "broadcast_message", exclude,
                    TRUE, attempted)

\* the orders in which a set can be iterated
Orders(S) ==
    {f \in [1..Cardinality(S) -> S] : \A i, j \in 1..Cardinality(S) : f[i] = f[j] => i = j}

(***************************************************************************)
(* llm.stream_chat and llm.complete: the messages sent to the model        *)
(***************************************************************************)
LlmRoles == {"system", "user", "assistant"}
LlmContents == { <<"x">>, <<" ">> }
LlmMessages == [role : LlmRoles, content : LlmContents]

RECURSIVE SeqsUpTo(_, _)
SeqsUpTo(S, n) ==
    IF n = 0 THEN { <<>> }
    ELSE LET shorter == SeqsUpTo(S, n - 1)
         IN  shorter \cup {Append(q, x) : q \in shorter, x \in S}

\* str.strip(): blanks and line breaks are removed at both ends
Whitespace == {" ", "\n"}

RECURSIVE WsLStrip(_)
WsLStrip(str) == IF str # <<>> /\ Head(str) \in Whitespace THEN WsLStrip(Tail(str)) ELSE str

RECURSIVE WsRStrip(_)
WsRStrip(str) ==
    IF str # <<>> /\ str[Len(str)] \in Whitespace
    THEN WsRStrip(SubSeq(str, 1, Len(str) - 1))
    ELSE str

WsStrip(str) == WsLStrip(WsRStrip(str))

SystemMessage == [role |-> "system", content |-> <<"You are a helpful assistant.">>]

\* history plus the prompt as a user message unless the history ends with one
BaseMessages(prompt, hist) ==
    IF hist # <<>> /\ hist[Len(hist)].role = "user"
    THEN hist
    ELSE Append(hist, [role |-> "user", content |-> prompt])

\* the for loop of normalize: a message of the role of the last one kept is
\* merged into it, any other is appended
RECURSIVE MergeInto(_, _)
MergeInto(out, messages) ==
    IF messages = <<>> THEN out
    ELSE LET m == Head(messages)
         IN  IF out # <<>> /\ out[Len(out)].role = m.role
             THEN MergeInto([out EXCEPT ![Len(out)].content =
                                            WsStrip(@ \o <<"\n">> \o m.content)],
                            Tail(messages))
             ELSE MergeInto(Append(out, m), Tail(messages))

normalize_without_merge(messages) ==
    IF messages = <<>> THEN << SystemMessage >>
    ELSE (IF messages[1].role # "system" THEN << SystemMessage >> ELSE <<>>) \o messages

\* stream_chat.normalize
normalize(messages) ==
    IF messages = <<>> THEN << SystemMessage >>
    ELSE MergeInto(IF messages[1].role # "system" THEN << SystemMessage >> ELSE <<>>,
                   messages)

\* the inline normalization of complete
complete_normalize(messages) ==
    MergeInto(IF messages # <<>> /\ messages[1].role # "system"
              THEN << SystemMessage >> ELSE <<>>,
              messages)

stream_chat(s) ==
    [s EXCEPT !.llm.via = "stream_chat",
              !.llm.messages = normalize(BaseMessages(s.llm.prompt, s.llm.history))]

complete(s) ==
    [s EXCEPT !.llm.via = "complete",
              !.llm.messages = complete_normalize(BaseMessages(s.llm.prompt, s.llm.history))]

(***************************************************************************)
(* Actions                                                                 *)
(***************************************************************************)
\* task t is resumed at pc and no cancellation is pending for it
RunningIgnoresCancel(t, pc) == tasks[t].pc = pc

Running(t, pc) == tasks[t].pc = pc /\ ~tasks[t].cancel_req

RecvTurnEndAwaitsTask ==
    /\ recv_loop = "running"
    /\ nturns < MaxTurns
    /\ \A t \in Turns : tasks[t].pc \notin Suspended
    /\ \E transcript \in Transcripts : Commit(TurnEnd(Cur, transcript))

RecvTurnEnd ==
    /\ recv_loop = "running"
    /\ nturns < MaxTurns
    /\ \E transcript \in Transcripts : Commit(TurnEnd(Cur, transcript))

RecvDisconnect ==
    /\ recv_loop = "running"
    /\ Commit(Disconnect(Cur))

\* the task is resumed after cancel(): CancelledError is raised at its await
\* (or before its first statement) and re-raised by the handler
TaskCancelled ==
    \E t \in Turns :
        /\ tasks[t].pc \in Suspended
        /\ tasks[t].cancel_req
        /\ Commit(SetPc(Cur, t, "cancelled"))

\* the state as seen by code that holds a reference to session object sid
At(sid) == Focus(Cur, sid)

\* the state such code leaves, with the receive loop's session in front again
Home(s) == Focus(s, session)

TaskStart ==
    \E t \in Turns : Running(t, "new") /\ Commit(Home(BeginTask(At(tasks[t].sess), t)))

ConnectDone ==
    \E t \in Turns, ok \in BOOLEAN : Running(t, "connect") /\ Commit(Home(AfterConnect(At(tasks[t].sess), t, ok)))

ClearDone ==
    \E t \in Turns : Running(t, "clear") /\ Commit(Home(StartStream(At(tasks[t].sess), t)))

RECURSIVE TokensYielded(_)
TokensYielded(t) == IF t = 0 THEN 0 ELSE Len(tasks[t].assembled) + TokensYielded(t - 1)

LlmToken ==
    \E t \in Turns, audio \in BOOLEAN, exc \in ExcKinds :
        /\ Running(t, "llm")
        /\ TokensYielded(MaxTurns) < MaxTokens
        /\ Commit(Home(OnToken(At(tasks[t].sess), t, TokenAt(Len(tasks[t].assembled) + 1),
                                audio, exc)))

LlmExhausted ==
    \E t \in Turns, audio \in BOOLEAN, exc \in ExcKinds :
        /\ Running(t, "llm")
        /\ Commit(Home(CompletePhase([At(tasks[t].sess) EXCEPT !.tasks[t].exhausted = TRUE],
                                      t, audio, exc)))

LlmRaises ==
    \E t \in Turns :
        /\ Running(t, "llm")
        /\ Commit(Home(OnException([At(tasks[t].sess) EXCEPT !.tasks[t].failed = TRUE], t)))

TokWsDone ==
    \E t \in Turns : Running(t, "tok_ws") /\ Commit(Home(ForwardToken(At(tasks[t].sess), t)))

TokMurfDone ==
    \E t \in Turns : Running(t, "tok_murf") /\ Commit(SetPc(Cur, t, "llm"))

CompleteWsDone ==
    \E t \in Turns, audio \in BOOLEAN :
        Running(t, "complete_ws") /\ Commit(Home(EndPhase(At(tasks[t].sess), t, audio)))

\* after the end signal wait_for_final is started as a task of its own; it
\* touches only MurfWsClient._final_events
EndMurfDone ==
    \E t \in Turns, audio \in BOOLEAN :
        Running(t, "end_murf") /\ Commit(Home(FinalPhase(At(tasks[t].sess), t, audio)))

TtsWsDone ==
    \E t \in Turns : Running(t, "tts_ws") /\ Commit(SetPc(Cur, t, "done"))

ErrWsDone ==
    \E t \in Turns : Running(t, "err_ws") /\ Commit(SetPc(Cur, t, "done"))

HasMsg(out, ctx, kind) == \E i \in 1..Len(out) : out[i].ctx = ctx /\ out[i].kind = kind

\* ws.recv() returns an audio frame of the Murf backend.  The backend produces
\* frames for a context it was sent text for, the final one after the end
\* signal; a frame already on its way is still delivered after a clear.
RecvFrame ==
    \E ctx \in Turns, final \in BOOLEAN :
        /\ HasMsg(murf_out, ctx, "text")
        /\ SessionOf(Cur, tasks[ctx].sess).recv_task = "running"
        /\ SessionOf(Cur, tasks[ctx].sess).murf_ws = "open"
        /\ final => HasMsg(murf_out, ctx, "end")
        /\ \A i \in 1..Len(audio_rx) :
               audio_rx[i].ctx = ctx => (~audio_rx[i].final /\ audio_rx[i].final # final)
        /\ Commit(Home(OnFrame(At(tasks[ctx].sess), [ctx |-> ctx, final |-> final])))

\* the connection to the Murf backend is lost: ws.recv() raises in _recv_loop,
\* which logs the error and ends; later sends on the socket raise
MurfDrop ==
    \E sid \in SessionIds :
        /\ SessionOf(Cur, sid).murf_ws = "open"
        /\ Commit(Home(RecvLoopError(At(sid))))

NumOf(log, kind) == Len(SelectSeq(log, LAMBDA e : e.kind = kind))

\* get_or_create_session can serve the frame within the session objects kept
Servable(frame) ==
    /\ frame.type = "session_create" => UnusedIds(Cur) # {}
    /\ frame.type = "session_join" =>
           IF RequestedId(frame.arg) = 0 THEN UnusedIds(Cur) # {}
           ELSE CanHold(Cur, RequestedId(frame.arg))

\* a text frame other than turn_end is received
RecvText ==
    /\ recv_loop = "running"
    /\ NumOf(rx_log, "text") < MaxFrames
    /\ \E frame \in TextFrames : Servable(frame) /\ Commit(OnText(Cur, frame))

\* a message of the client that is not a turn_end, or a change of session
RecvControl ==
    /\ recv_loop = "running"
    /\ NumOf(rx_log, "text") < MaxFrames
    /\ \E frame \in ControlFrames : Servable(frame) /\ Commit(OnText(Cur, frame))

\* a turn_end frame is received: RecvTurnEnd with the frame kept in rx_log, so
\* that a turn_end that changes nothing is still seen to have been handled
RecvTurnEndFrame ==
    /\ recv_loop = "running"
    /\ nturns < MaxTurns
    /\ NumOf(rx_log, "turn_end") < MaxTurnEnds
    /\ \E transcript \in Transcripts :
           Commit(TurnEnd([Cur EXCEPT !.rx_log =
                               Append(@, [kind |-> "turn_end", json |-> TRUE,
                                          type |-> "turn_end", arg |-> transcript,
                                          len |-> 0, sess |-> session,
                                          mode |-> streaming_mode])],
                          transcript))

\* a binary frame is received
RecvBytes ==
    /\ recv_loop = "running"
    /\ NumOf(rx_log, "bytes") < MaxBinary
    /\ \E n \in FrameSizes : Commit(OnBytes(Cur, n))

\* an HTTP DELETE for a registered session
DeleteSession ==
    \E sid \in SESSIONS : Commit(delete_session(Cur, sid))

NumCalls(op) == Len(SelectSeq(mw.calls, LAMBDA c : c.op = op))

MwNew ==
    /\ murf_client = "None"
    /\ Commit(MurfNew(Cur))

MwConnect ==
    /\ murf_client = "obj"
    /\ murf_ws = "none"
    /\ NumCalls("connect") < MaxMurfCalls
    /\ \E ok \in BOOLEAN : Commit(MurfConnect(Cur, ok))

MwStartReceiver ==
    /\ murf_client = "obj"
    /\ NumCalls("start_receiver") < MaxMurfCalls
    /\ Commit(MurfStartReceiver(Cur))

MwClose ==
    /\ murf_client = "obj"
    /\ NumCalls("close") < MaxMurfCalls
    /\ \E ws_raises \in BOOLEAN : Commit(MurfClose(Cur, ws_raises))

\* the backend sends a frame and the receiver loop reads it
MwRecvFrame ==
    /\ recv_task = "running"
    /\ murf_ws = "open"
    /\ Len(mw.frames) < MaxMurfFrames
    /\ \E ctx \in Turns, final \in BOOLEAN :
           Commit(OnMurfFrame(Cur, [ctx |-> ctx, final |-> final]))

MwWaitForFinal ==
    /\ murf_client = "obj"
    /\ \E ctx \in Turns :
           /\ mw.waits[ctx] = "none"
           /\ Commit(WaitForFinal(Cur, ctx))

MwWaitReturns ==
    \E ctx \in Turns :
        /\ mw.waits[ctx] = "waiting"
        /\ mw.final_events[ctx] = "set"
        /\ Commit(WaitDone(Cur, ctx, FALSE))

MwWaitTimesOut ==
    \E ctx \in Turns :
        /\ mw.waits[ctx] = "waiting"
        /\ mw.final_events[ctx] # "set"
        /\ Commit(WaitDone(Cur, ctx, TRUE))

SttStartCall ==
    \E sid \in SessionIds :
        /\ stt.starts[sid] = "none"
        /\ Commit(SttStart(Cur, sid))

SttConnects ==
    \E k \in SttObjs, ok \in BOOLEAN :
        /\ stt.threads[k] = "start"
        /\ Commit(SttThreadConnect(Cur, k, ok))

SttSetsFlag ==
    \E k \in SttObjs :
        /\ stt.threads[k] \in {"connected", "failed"}
        /\ Commit(SttThreadFlag(Cur, k))

SttStartDone ==
    \E sid \in SessionIds :
        /\ stt.starts[sid] = "sleeping"
        /\ Commit(SttStartReturns(Cur, sid))

\* the backend sends a transcript on an open connection
SttEvent ==
    \E k \in SttObjs, kind \in {"PartialTranscript", "FinalTranscript"},
       text \in Transcripts :
        /\ stt.objs[k].state = "connected"
        /\ Len(stt.events) < MaxSttEvents
        /\ Commit(on_data(Cur, k, kind, text))

SttCallbackRuns ==
    /\ stt.queue # <<>>
    /\ Commit(SttRunCallback(Cur))

SttAudio ==
    \E sid \in SessionIds, sent_by \in {"stream", "send_audio", "send", "none"} :
        /\ Len(stt.audio) < MaxSttChunks
        /\ Commit(stream_audio_chunk(Cur, sid, sent_by))

SttStop ==
    \E sid \in SessionIds, close_ok \in BOOLEAN :
        /\ Len(stt.stops) < MaxSttStops
        /\ Commit(stop_streaming_session(Cur, sid, close_ok))

\* stop_streaming_session called again for the session stopped last
SttStopAgain ==
    \E close_ok \in BOOLEAN :
        /\ Len(stt.stops) >= 1
        /\ Len(stt.stops) < MaxSttStops + MaxSttRepeats
        /\ Commit(stop_streaming_session(Cur, stt.stops[Len(stt.stops)].sess, close_ok))

WmConnect ==
    \E ws \in Sockets :
        /\ ws \notin wm.active_connections
        /\ Commit(WmCall(manager_connect(Cur, ws), "connect", ws, FALSE, {}))

WmDisconnect ==
    \E ws \in Sockets :
        /\ ws \in DOMAIN wm.connection_metadata
        /\ Commit(WmCall(disconnect(Cur, ws), "disconnect", ws, FALSE, {}))

WmAddToSession ==
    \E ws \in Sockets, sid \in SessionIds :
        /\ ws \in DOMAIN wm.connection_metadata
        /\ Commit(WmCall(add_to_session(Cur, ws, sid), "add_to_session", ws, FALSE, {}))

WmRemoveFromSession ==
    \E ws \in Sockets, sid \in SessionIds :
        /\ ws \in DOMAIN wm.connection_metadata
        /\ Commit(WmCall(remove_from_session(Cur, ws, sid), "remove_from_session", ws,
                         FALSE, {}))

WmSend ==
    \E ws \in Sockets, ok \in BOOLEAN :
        /\ ws \in wm.active_connections
        /\ Commit(WmCall(send_message(Cur, ws, ok), "send_message", ws, FALSE, {ws}))

WmBroadcast ==
    \E exclude \in Sockets \cup {0}, fails \in SUBSET Sockets,
       order \in Orders(wm.active_connections) :
        /\ exclude \in DOMAIN wm.connection_metadata \cup {0}
        /\ Commit(broadcast_message(Cur, order, exclude, fails))

LlmStreamChat ==
    /\ llm.via = "none"
    /\ Commit(stream_chat(Cur))

LlmComplete ==
    /\ llm.via = "none"
    /\ Commit(complete(Cur))

InitSession ==
    /\ history = <<>>
    /\ MURF_API_KEY \in BOOLEAN
    /\ current_llm_task = 0
    /\ murf_client = "None"
    /\ murf_ws = "none"
    /\ murf_closed = FALSE
    /\ murf_conns = 0
    /\ recv_task = "none"
    /\ last_murf_context_id = 0
    /\ murf_streaming_for_turn = FALSE
    /\ tasks = [t \in Turns |-> NoTask]
    /\ nturns = 0
    /\ recv_loop = "running"
    /\ ws_out = <<>>
    /\ audio_out = <<>>
    /\ audio_rx = <<>>
    /\ murf_out = <<>>
    /\ append_log = <<>>
    /\ tts_calls = <<>>
    /\ streaming_mode = TRUE
    /\ audio_file_path = FALSE
    /\ audio_bytes = 0
    /\ audio_chunks = 0
    /\ audio_started_at = 0
    /\ now = 0
    /\ session = 1
    /\ SESSIONS = {1}
    /\ store = [sid \in SessionIds |-> FreshSession]
    /\ rx_log = <<>>
    /\ ctl_out = <<>>
    /\ mw = [final_events |-> [c \in Turns |-> "none"], waits |-> [c \in Turns |-> "none"],
             frames |-> <<>>, calls |-> <<>>, late |-> {}]
    /\ stt = [transcriber |-> 0, is_streaming |-> FALSE,
              session_transcriptions |->
                  [sid \in SessionIds |-> [present |-> FALSE, items |-> <<>>]],
              objs |-> [k \in SttObjs |-> [sess |-> 0, state |-> "unused"]],
              threads |-> [k \in SttObjs |-> "none"],
              starts |-> [sid \in SessionIds |-> "none"],
              events |-> <<>>, queue |-> <<>>, delivered |-> <<>>,
              writes |-> {}, audio |-> <<>>, stops |-> <<>>]
    /\ wm = [active_connections |-> {}, session_connections |-> <<>>,
             connection_metadata |-> [w \in Sockets |-> -1],
             last |-> NoCall]

\* no call of the llm module is modelled outside SpecLlm
LlmIdle == llm = [prompt |-> <<>>, history |-> <<>>, via |-> "none", messages |-> <<>>]

Init == InitSession /\ LlmIdle /\ MAX_HISTORY = DefaultMaxHistory

Next ==
    \/ RecvTurnEnd
    \/ RecvDisconnect
    \/ TaskCancelled
    \/ TaskStart
    \/ ConnectDone
    \/ ClearDone
    \/ LlmToken
    \/ LlmExhausted
    \/ LlmRaises
    \/ TokWsDone
    \/ TokMurfDone
    \/ CompleteWsDone
    \/ EndMurfDone
    \/ TtsWsDone
    \/ ErrWsDone
    \/ MurfDrop
    \/ RecvFrame

Spec == Init /\ [][Next]_vars

(***************************************************************************)
(* The connection with client messages other than turn_end and with        *)
(* changes of session, while the Murf backend stays connected and silent   *)
(***************************************************************************)
NextConn ==
    \/ RecvTurnEnd
    \/ RecvControl
    \/ RecvDisconnect
    \/ TaskCancelled
    \/ TaskStart
    \/ ConnectDone
    \/ ClearDone
    \/ LlmToken
    \/ LlmExhausted
    \/ LlmRaises
    \/ TokWsDone
    \/ TokMurfDone
    \/ CompleteWsDone
    \/ EndMurfDone
    \/ TtsWsDone
    \/ ErrWsDone

SpecConn == Init /\ [][NextConn]_vars

(***************************************************************************)
(* The connection and DELETE /session/{session_id}                         *)
(***************************************************************************)
NextDelete == Next \/ DeleteSession

SpecDelete == Init /\ [][NextDelete]_vars

(***************************************************************************)
(* A MurfWsClient driven through its methods in any order                  *)
(***************************************************************************)
InitMurf == Init /\ MURF_API_KEY

NextMurf ==
    \/ MwNew
    \/ MwConnect
    \/ MwStartReceiver
    \/ MwClose
    \/ MwRecvFrame
    \/ MwWaitForFinal
    \/ MwWaitReturns
    \/ MwWaitTimesOut

SpecMurf == InitMurf /\ [][NextMurf]_vars

(***************************************************************************)
(* One StreamingSTTService used by the sessions, with its SDK threads      *)
(***************************************************************************)
InitStt == Init /\ MURF_API_KEY

\* the service's methods and its connection threads
NextStt ==
    \/ SttStartCall
    \/ SttConnects
    \/ SttSetsFlag
    \/ SttStartDone
    \/ SttAudio
    \/ SttStop

SpecStt == InitStt /\ [][NextStt]_vars

\* the same with the backend's transcripts and the callbacks in place of audio
NextSttEvents ==
    \/ SttStartCall
    \/ SttConnects
    \/ SttSetsFlag
    \/ SttStartDone
    \/ SttEvent
    \/ SttCallbackRuns
    \/ SttStop

SpecSttEvents == InitStt /\ [][NextSttEvents]_vars

\* the service with its transcripts and repeated stop calls
NextSttStop ==
    \/ SttStartCall
    \/ SttConnects
    \/ SttSetsFlag
    \/ SttStartDone
    \/ SttEvent
    \/ SttStop
    \/ SttStopAgain

SpecSttStop == InitStt /\ [][NextSttStop]_vars

(***************************************************************************)
(* A WebSocketManager driven through its methods in any order              *)
(***************************************************************************)
InitWm == Init /\ MURF_API_KEY

NextWm ==
    \/ WmConnect
    \/ WmDisconnect
    \/ WmAddToSession
    \/ WmRemoveFromSession
    \/ WmSend
    \/ WmBroadcast

SpecWm == InitWm /\ [][NextWm]_vars

(***************************************************************************)
(* One call of stream_chat or complete with any prompt and history         *)
(***************************************************************************)
InitLlm ==
    /\ InitSession
    /\ MURF_API_KEY
    /\ MAX_HISTORY = DefaultMaxHistory
    /\ \E h \in SeqsUpTo(LlmMessages, MaxLlmHistory), p \in LlmContents :
           llm = [prompt |-> p, history |-> h, via |-> "none", messages |-> <<>>]

NextLlm == LlmStreamChat \/ LlmComplete

SpecLlm == InitLlm /\ [][NextLlm]_vars

(***************************************************************************)
(* The connection of Spec with every turn_end frame kept in rx_log         *)
(***************************************************************************)
NextTurn ==
    \/ RecvTurnEndFrame
    \/ RecvDisconnect
    \/ TaskCancelled
    \/ TaskStart
    \/ ConnectDone
    \/ ClearDone
    \/ LlmToken
    \/ LlmExhausted
    \/ LlmRaises
    \/ TokWsDone
    \/ TokMurfDone
    \/ CompleteWsDone
    \/ EndMurfDone
    \/ TtsWsDone
    \/ ErrWsDone
    \/ MurfDrop
    \/ RecvFrame

SpecTurn == Init /\ [][NextTurn]_vars

(***************************************************************************)
(* The receive loop alone with binary audio frames: the response tasks     *)
(* never touch the audio fields of a session                               *)
(***************************************************************************)
NextAudio == RecvBytes \/ RecvText \/ RecvTurnEnd

SpecAudio == Init /\ [][NextAudio]_vars

(***************************************************************************)
(* _append_history_with_trim alone, for every configured MAX_CHAT_HISTORY  *)
(* (config.py reads any integer from the environment)                      *)
(***************************************************************************)
InitHist == InitSession /\ LlmIdle /\ MAX_HISTORY \in HistoryCaps

HistAppend ==
    \E role \in HistRoles, content \in HistContents :
        /\ Len(append_log) < MaxAppends
        /\ Commit(append_history_with_trim(Cur, role, content, 0))

NextHist == HistAppend

SpecHist == InitHist /\ [][NextHist]_vars

(***************************************************************************)
(* Observations on the logs                                                *)
(***************************************************************************)
Unfinished(t) == tasks[t].pc \in Suspended

EventsOf(log, t, type) ==
    LET Is(e) == e.turn = t /\ e.type = type IN SelectSeq(log, Is)

EntriesOf(log, t, role) ==
    LET Is(e) == e.turn = t /\ e.role = role IN SelectSeq(log, Is)

MsgsOf(out, ctx, kind) ==
    LET Is(m) == m.ctx = ctx /\ m.kind = kind IN SelectSeq(out, Is)

CallsOf(calls, t) ==
    LET Is(c) == c.turn = t IN SelectSeq(calls, Is)

Texts(seq) == [i \in 1..Len(seq) |-> seq[i].text]

IsPrefix(a, b) == Len(a) <= Len(b) /\ SubSeq(b, 1, Len(a)) = a

FirstIndex(out, ctx, kind) ==
    CHOOSE i \in 1..Len(out) :
        /\ out[i].ctx = ctx /\ out[i].kind = kind
        /\ \A j \in 1..(i - 1) : ~(out[j].ctx = ctx /\ out[j].kind = kind)

Terminal(t) ==
    \/ \E i \in 1..Len(audio_out) : audio_out[i] = [ctx |-> t, final |-> TRUE]
    \/ EventsOf(ws_out, t, "tts_audio") # <<>>
    \/ EventsOf(ws_out, t, "error") # <<>>

(***************************************************************************)
(* Claims                                                                  *)
(***************************************************************************)

\* C1: at most one response task of the session is unfinished at any time
\* (a turn_end starts its task only after the previous one has finished).
C1_AtMostOneUnfinishedTask ==
    \A t, u \in Turns : (Unfinished(t) /\ Unfinished(u)) => t = u

\* C2: the user entry of a new turn is appended to the history only after
\* every earlier response task has finished (its cancellation acknowledged).
C2_HistoryAppendAfterCancelAck ==
    \A t, u \in Turns :
        (t < u /\ EntriesOf(append_log, u, "user") # <<>>) => ~Unfinished(t)

\* C3: for two turns a before b that both forwarded text to the bridge (the
\* task of a has ended, cancelled or not), a clear of a's context was sent
\* before the first text under b's context.
C3_ClearBeforeNextContext ==
    \A a, b \in Turns :
        ( /\ a < b /\ ~Unfinished(a)
          /\ HasMsg(murf_out, a, "text") /\ HasMsg(murf_out, b, "text") )
            => \E i \in 1..Len(murf_out) :
                   /\ murf_out[i].ctx = a /\ murf_out[i].kind = "clear"
                   /\ i < FirstIndex(murf_out, b, "text")

C4_NoEntryForCancelledTurn ==
    \A t \in Turns :
        (tasks[t].cancel_req /\ ~tasks[t].exhausted)
            => EntriesOf(append_log, t, "assistant") = <<>>

C4_InertStep ==
    \A t \in Turns :
        tasks[t].cancel_req =>
            /\ EventsOf(ws_out', t, "llm_token") = EventsOf(ws_out, t, "llm_token")
            /\ EventsOf(ws_out', t, "llm_complete") = EventsOf(ws_out, t, "llm_complete")
            /\ MsgsOf(murf_out', t, "text") = MsgsOf(murf_out, t, "text")
            /\ MsgsOf(murf_out', t, "end") = MsgsOf(murf_out, t, "end")
            /\ EntriesOf(append_log', t, "assistant") = EntriesOf(append_log, t, "assistant")
            /\ tasks'[t].assembled = tasks[t].assembled

\* C4: from the moment a newer turn has cancelled a response task, no step
\* adds an llm_token or llm_complete event, a bridge message or a history
\* entry of that task, and a task cancelled before its model stream was
\* exhausted has no assistant entry.
C4_CancelledTaskIsInert == [][C4_InertStep]_vars /\ []C4_NoEntryForCancelledTurn

C4_Witness ==
    \E t, u \in Turns :
        /\ t < u
        /\ tasks[t].pc = "cancelled"
        /\ Len(EventsOf(ws_out, t, "llm_token")) = 1
        /\ MsgsOf(murf_out, t, "text") # <<>>
        /\ tasks[u].exhausted

\* C5: a turn whose model stream completed normally and for whose own
\* context no audio frame was received (frames of other contexts do not
\* count) has had tts.synthesize called exactly once, with the full
\* assembled text.
C5_FallbackUnlessOwnAudio ==
    \A t \in Turns :
        ( /\ tasks[t].exhausted
          /\ tasks[t].pc \in {"tts_ws", "done"}
          /\ recv_loop = "running"
          /\ \A u \in Turns : u # t => ~Unfinished(u)
          /\ \A i \in 1..Len(audio_rx) : audio_rx[i].ctx # t )
            => CallsOf(tts_calls, t) = << [turn |-> t, text |-> Join(tasks[t].assembled)] >>

\* C6: a turn whose task has ended, and for whose context the bridge holds
\* no text (so that no audio can still come), has had a terminal signal sent
\* to the connected client: a final audio chunk, a tts_audio reply or an
\* error event.
C6_TerminalSignalForEveryTurn ==
    \A t \in Turns :
        ( /\ tasks[t].pc \in {"done", "cancelled"}
          /\ recv_loop = "running"
          /\ ~HasMsg(murf_out, t, "text") )
            => Terminal(t)

BridgeUp == murf_client = "obj" /\ murf_ws = "open"

\* C8: the llm_token events of a turn are the tokens yielded, in order, and
\* the texts sent to the bridge under the turn's context are those events, in
\* order; a token is in the buffer before its event is sent and its event is
\* sent before it is forwarded, and when the next token is awaited all three
\* are complete for every earlier token.
C8_TokenOrder ==
    \A t \in Turns :
        LET toks == Texts(EventsOf(ws_out, t, "llm_token"))
            fwd == Texts(MsgsOf(murf_out, t, "text"))
            n == Len(tasks[t].assembled)
        IN  /\ IsPrefix(toks, tasks[t].assembled)
            /\ IsPrefix(fwd, toks)
            /\ \A i \in 1..n : tasks[t].assembled[i] = TokenAt(i)
            /\ recv_loop = "running" => toks = tasks[t].assembled
            /\ (tasks[t].pc = "tok_ws" /\ recv_loop = "running") => Len(fwd) < n
            /\ ( /\ tasks[t].pc \in {"tok_murf", "llm"} /\ ~tasks[t].cancel_req
                 /\ BridgeUp /\ recv_loop = "running" )
                   => fwd = tasks[t].assembled

C8_Witness ==
    \E t \in Turns :
        /\ tasks[t].pc = "llm"
        /\ Texts(EventsOf(ws_out, t, "llm_token")) = << <<"a">>, <<"b", "c">> >>
        /\ Texts(MsgsOf(murf_out, t, "text")) = << <<"a">>, <<"b", "c">> >>

\* C9: a turn whose model stream raised has no assistant entry and at most
\* one error event, exactly one while the client is connected; its task ends
\* and the receive loop can still take a turn_end, which starts a task.
C9_StreamFailureIsOneError ==
    \A t \in Turns :
        tasks[t].failed =>
            /\ EntriesOf(append_log, t, "assistant") = <<>>
            /\ EventsOf(ws_out, t, "llm_complete") = <<>>
            /\ Len(EventsOf(ws_out, t, "error")) <= 1
            /\ recv_loop = "running" => Len(EventsOf(ws_out, t, "error")) = 1
            /\ tasks[t].pc \in {"err_ws", "done", "cancelled"}
            /\ (recv_loop = "running" /\ nturns < MaxTurns) => ENABLED RecvTurnEnd

C9_Witness ==
    \E t, u \in Turns :
        /\ t < u
        /\ tasks[t].failed /\ tasks[t].pc = "done"
        /\ Len(tasks[t].assembled) = 1
        /\ Len(EventsOf(ws_out, t, "error")) = 1
        /\ tasks[u].exhausted /\ tasks[u].pc = "done"
        /\ recv_loop = "running"

Min(a, b) == IF a <= b THEN a ELSE b

LastN(seq, k) == SubSeq(seq, Len(seq) - k + 1, Len(seq))

Appended == [i \in 1..Len(append_log) |->
                [role |-> append_log[i].role, content |-> append_log[i].content]]

\* C10 as stated: for every configured MAX_HISTORY, after each append the
\* history is the most recent min(n, MAX_HISTORY) of the n appended entries,
\* so its length never exceeds MAX_HISTORY.
C10_CappedForEveryConfiguredCap ==
    Len(append_log) >= 1 =>
        /\ Len(history) <= MAX_HISTORY
        /\ history = LastN(Appended, Min(Len(Appended), MAX_HISTORY))

\* C10 amended: for every configured MAX_HISTORY > 0 the history is the most
\* recent min(n, MAX_HISTORY) appended entries in insertion order; with
\* MAX_HISTORY <= 0 nothing is evicted and the history is all n entries.
C10_CappedForPositiveCap ==
    /\ MAX_HISTORY > 0 =>
           /\ Len(history) <= MAX_HISTORY
           /\ history = LastN(Appended, Min(Len(Appended), MAX_HISTORY))
    /\ MAX_HISTORY <= 0 => history = Appended

C10_Witness ==
    /\ MAX_HISTORY = 2
    /\ Len(append_log) = 4
    /\ history = << Appended[3], Appended[4] >>
    /\ Appended[1] # Appended[3]

\* the bridge of session sid exists and cannot be used any more: close() was
\* called on it, its connection was lost, or its connect() was abandoned
BridgeDead(sid) ==
    LET b == SessionOf(Cur, sid)
    IN  /\ b.murf_client = "obj"
        /\ \/ b.murf_closed
           \/ b.murf_ws = "closed"
           \/ /\ b.murf_ws = "none"
              /\ ~\E u \in Turns : tasks[u].sess = sid /\ tasks[u].pc = "connect"

C13_StartStep ==
    \A t \in Turns :
        ( /\ tasks[t].pc = "new" /\ tasks'[t].pc \notin {"new", "cancelled"}
          /\ MURF_API_KEY /\ BridgeDead(tasks[t].sess) )
            => tasks'[t].pc = "connect"

\* C13: a response task that starts while its session's bridge is closed or
\* has failed opens a new bridge connection before it streams.
C13_DeadBridgeIsReplaced == [][C13_StartStep]_vars

C14_TurnEndStep ==
    nturns' = nturns + 1 =>
        \A t \in Turns :
            t <= nturns =>
                /\ tasks'[t].pc = tasks[t].pc
                /\ (t = current_llm_task /\ Unfinished(t)) => tasks'[t].cancel_req

C14_LoopCanReceive == (recv_loop = "running" /\ nturns < MaxTurns) => ENABLED RecvTurnEnd

\* C14: whatever the response tasks are doing, the running receive loop can
\* take the next turn_end; handling it marks the running task cancelled and
\* starts the new one without running or waiting for any task.
C14_ReceiveLoopNeverAwaitsTask == [][C14_TurnEndStep]_vars /\ []C14_LoopCanReceive

C14_Witness ==
    \E t, u \in Turns :
        /\ t < u
        /\ tasks[t].pc = "tok_murf" /\ tasks[t].cancel_req
        /\ tasks[u].pc = "new"

C16_EveryFrameForwardedOnce ==
    /\ IsPrefix(audio_out, audio_rx)
    /\ recv_loop = "running" => audio_out = audio_rx
    /\ \A i, j \in 1..Len(audio_out) : audio_out[i] = audio_out[j] => i = j

C16_Witness ==
    /\ recv_loop = "running"
    /\ Len(audio_out) = 3
    /\ \E i, j \in 1..3 :
           /\ i < j
           /\ audio_out[i].ctx = 2
           /\ audio_out[j].ctx = 1
           /\ current_llm_task = 2

UserEntries == SelectSeq(append_log, LAMBDA e : e.role = "user")

TextMessages == SelectSeq(rx_log, LAMBDA f : f.kind = "text" /\ f.json /\ f.type = "text")

\* C11: every message carrying finalized user text (a text message or a
\* turn_end with a non-empty transcript) has appended one user entry; and on
\* a session with only one turn, completed with no streaming audio and the
\* client connected, the history is the user entry and the assistant entry,
\* and the client got one llm_complete and one tts_audio event.
C11_FinalTextStartsTurn ==
    /\ Len(UserEntries) = nturns + Len(TextMessages)
    /\ \A t \in Turns :
           ( /\ tasks[t].pc = "done" /\ tasks[t].exhausted
             /\ \A u \in Turns : u # t => tasks[u].sess # tasks[t].sess
             /\ audio_rx = <<>> /\ recv_loop = "running" )
               => /\ SessionOf(Cur, tasks[t].sess).history =
                         << [role |-> "user", content |-> tasks[t].prompt],
                            [role |-> "assistant", content |-> Join(tasks[t].assembled)] >>
                  /\ Len(EventsOf(ws_out, t, "llm_complete")) = 1
                  /\ Len(EventsOf(ws_out, t, "tts_audio")) = 1

\* C12: a session that has been deleted from the registry has had close()
\* called on its bridge and has no response task left running uncancelled.
C12_DeletedSessionIsTornDown ==
    \A sid \in SessionIds :
        (sid \notin SESSIONS /\ SessionOf(Cur, sid) # FreshSession) =>
            /\ SessionOf(Cur, sid).murf_client = "obj" => SessionOf(Cur, sid).murf_closed
            /\ \A t \in Turns :
                   (tasks[t].sess = sid /\ Unfinished(t)) => tasks[t].cancel_req

RecognizedTypes == {"echo", "session_create", "session_join", "streaming_mode",
                    "clear_murf", "turn_end"}

Malformed(f) ==
    f.kind = "text" /\ (~f.json \/ (~NonObject(f) /\ f.type \notin RecognizedTypes))

C17_MalformedStep ==
    (Len(rx_log') = Len(rx_log) + 1 /\ Malformed(rx_log'[Len(rx_log')])) =>
        /\ Len(ctl_out') = Len(ctl_out) + 1
        /\ SubSeq(ctl_out', 1, Len(ctl_out)) = ctl_out
        /\ ctl_out'[Len(ctl_out')].type = "error"
        /\ ctl_out'[Len(ctl_out')].msg =
               IF rx_log'[Len(rx_log')].json
               THEN <<"unknown_type:", rx_log'[Len(rx_log')].type>>
               ELSE <<"invalid_json">>
        /\ recv_loop' = "running"
        /\ UNCHANGED <<history, current_llm_task, tasks, nturns, audio_bytes, audio_chunks,
                       audio_file_path, audio_started_at, streaming_mode, session,
                       SESSIONS, store, append_log, ws_out>>

\* C17: handling a text frame that is not valid JSON, or a JSON object whose
\* type is none of the control messages, sends exactly one error event,
\* changes nothing of the session (history, audio counters, task handle) and
\* leaves the receive loop running.
C17_MalformedFrameIsOneError == [][C17_MalformedStep]_vars

C17_Witness ==
    /\ Len(rx_log) = 2 /\ Malformed(rx_log[2]) /\ ~rx_log[2].json
    /\ nturns = 1
    /\ audio_chunks = 1
    /\ ctl_out[Len(ctl_out)].msg = <<"invalid_json">>

C18_ExitStep ==
    (recv_loop = "running" /\ recv_loop' # "running") =>
        /\ murf_client = "obj" => murf_closed'
        /\ \A sid \in SessionIds :
               (sid # session /\ store[sid].murf_client = "obj") => store'[sid].murf_closed

\* C18: the step that ends the receive loop calls close() on the bridge of
\* every session of the connection that has one, the sessions the connection
\* left through session_create or session_join included.
C18_EveryBridgeClosedAtExit == [][C18_ExitStep]_vars

C19_TurnEndStep ==
    nturns' = nturns + 1 =>
        /\ ~audio_file_path'
        /\ audio_chunks' = 0
        /\ audio_bytes' = 0
        /\ audio_started_at' = 0

\* C19: a turn boundary leaves the turn buffer in the state "no buffer
\* open": no file, zero chunks, zero bytes and no start time.
C19_TurnBoundaryResetsBuffer == [][C19_TurnEndStep]_vars

Accepted(log, sid, k) ==
    SelectSeq(SubSeq(log, 1, k), LAMBDA f : f.kind = "bytes" /\ f.mode /\ f.sess = sid)

RECURSIVE SumLen(_)
SumLen(fs) == IF fs = <<>> THEN 0 ELSE Head(fs).len + SumLen(Tail(fs))

\* index in rx_log of the k-th binary frame received in streaming mode
RECURSIVE KthAccepted(_, _, _)
KthAccepted(log, k, i) ==
    IF log[i].kind = "bytes" /\ log[i].mode
    THEN IF k = 1 THEN i ELSE KthAccepted(log, k - 1, i + 1)
    ELSE KthAccepted(log, k, i + 1)

Progress == SelectSeq(ctl_out, LAMBDA e : e.type = "streaming_progress")

\* C20: for every session the chunk count is the number of binary frames
\* received for it in streaming mode and the byte count is the sum of their
\* lengths; there is one streaming_progress event per such frame, in order,
\* reporting the totals of the frame's session up to that frame.
C20_CountersAreRunningTotals ==
    /\ \A sid \in SessionIds :
           /\ SessionOf(Cur, sid).audio_chunks = Len(Accepted(rx_log, sid, Len(rx_log)))
           /\ SessionOf(Cur, sid).audio_bytes = SumLen(Accepted(rx_log, sid, Len(rx_log)))
    /\ Len(Progress) = Len(SelectSeq(rx_log, LAMBDA f : f.kind = "bytes" /\ f.mode))
    /\ \A k \in 1..Len(Progress) :
           LET i == KthAccepted(rx_log, k, 1)
               upto == Accepted(rx_log, rx_log[i].sess, i)
           IN  /\ Progress[k].chunks = Len(upto)
               /\ Progress[k].bytes = SumLen(upto)

C20_Witness ==
    /\ audio_chunks = 3
    /\ audio_bytes = 450
    /\ Progress[Len(Progress)].chunks = 3
    /\ Progress[Len(Progress)].bytes = 450
    /\ [i \in 1..3 |-> SelectSeq(rx_log, LAMBDA f : f.kind = "bytes")[i].len] = <<100, 200, 150>>

C21_EmptyChunkStep ==
    ( /\ Len(rx_log') = Len(rx_log) + 1
      /\ rx_log'[Len(rx_log')].kind = "bytes"
      /\ rx_log'[Len(rx_log')].len = 0 )
        => (audio_chunks' = audio_chunks /\ audio_bytes' = audio_bytes)

\* C21: handling a binary frame of length 0 leaves the chunk count and the
\* byte count of the session unchanged.
C21_EmptyChunkRejected == [][C21_EmptyChunkStep]_vars

BlankTurnEnd(f) == f.kind = "turn_end" /\ Strip(f.arg) = <<>>

C22_BlankStep ==
    (Len(rx_log') = Len(rx_log) + 1 /\ BlankTurnEnd(rx_log'[Len(rx_log')])) =>
        UNCHANGED <<history, append_log, tasks, current_llm_task, nturns, store, ws_out,
                    murf_out, murf_client>>

C22_NoEntryBeforeText ==
    (\A i \in 1..Len(rx_log) : rx_log[i].kind = "turn_end" => BlankTurnEnd(rx_log[i]))
        => (history = <<>> /\ append_log = <<>> /\ nturns = 0 /\ current_llm_task = 0)

\* C22: handling a turn_end whose transcript is empty or only whitespace
\* appends nothing, cancels no task and starts none; and as long as no
\* turn_end with other text has been received the history is empty.
C22_BlankTurnEndDoesNothing == [][C22_BlankStep]_vars /\ []C22_NoEntryBeforeText

C22_Witness ==
    /\ Len(rx_log) = 3
    /\ rx_log[1].arg = <<>>
    /\ ~BlankTurnEnd(rx_log[2])
    /\ rx_log[3].arg = <<" ">>
    /\ tasks[1].pc = "llm" /\ ~tasks[1].cancel_req
    /\ history = << [role |-> "user", content |-> <<"h", "i">>] >>

\* C23: get_or_create_session with a registered id gives that session with
\* its fields as they are; with an id not registered, or with no id (then
\* under an id not in use), it registers one new empty session; no other
\* session changes, and a second call with the same id changes nothing.
C23_GetOrCreate ==
    \A sid \in 0..MaxSessions :
        (IF sid = 0 THEN UnusedIds(Cur) # {} ELSE CanHold(Cur, sid)) =>
            LET s1 == get_or_create_session(Cur, sid)
                id == s1.session
            IN  /\ sid # 0 => id = sid
                /\ sid = 0 => id \notin SESSIONS
                /\ s1.SESSIONS = SESSIONS \cup {id}
                /\ SessionFields(s1) =
                       IF id \in SESSIONS THEN SessionOf(Cur, id) ELSE FreshSession
                /\ \A o \in SessionIds \ {id} : SessionOf(s1, o) = SessionOf(Cur, o)
                /\ s1.tasks = tasks
                /\ get_or_create_session(s1, id) = s1

C23_Witness ==
    /\ rx_log # <<>> /\ rx_log[1].type = "session_join" /\ rx_log[1].arg = "2"
    /\ session = 2
    /\ SESSIONS = {1, 2}
    /\ store[1].history # <<>>
    /\ store[1].current_llm_task = 1
    /\ history = <<>>

\* C24: no session has more than one connection to the Murf backend open.
C24_AtMostOneLiveBridge ==
    \A sid \in SessionIds : SessionOf(Cur, sid).murf_conns <= 1

C24_Witness ==
    /\ murf_conns = 1
    /\ murf_ws = "open"
    /\ nturns = 2
    /\ tasks[1].pc = "cancelled"
    /\ tasks[2].pc = "llm"
    /\ HasMsg(murf_out, 1, "text")

(***************************************************************************)
(* C28, C29: MurfWsClient on its own                                       *)
(***************************************************************************)
FinalRead(c) == \E i \in 1..Len(mw.frames) : mw.frames[i].final /\ mw.frames[i].ctx = c

FrameRead == Len(mw'.frames) = Len(mw.frames) + 1

C28_Step ==
    /\ \A c \in Turns :
          /\ (mw.waits[c] = "waiting" /\ mw'.waits[c] = "true") => mw.final_events[c] = "set"
          /\ (mw.waits[c] = "waiting" /\ mw'.waits[c] = "false") => mw.final_events[c] # "set"
    /\ FrameRead =>
          LET f == mw'.frames[Len(mw'.frames)]
          IN  /\ mw'.waits = mw.waits
              /\ \A c \in Turns :
                    mw'.final_events[c] # mw.final_events[c] => f.final /\ f.ctx = c
              /\ (f.final /\ mw.waits[f.ctx] = "waiting") => mw'.final_events[f.ctx] = "set"

C28_Released ==
    \A c \in Turns :
        /\ mw.waits[c] \in {"none", "waiting", "true", "false"}
        /\ mw.final_events[c] = "set" => FinalRead(c)
        /\ mw.waits[c] = "true" => FinalRead(c)

\* C28: wait_for_final ends with true or false and nothing else; it gives
\* true only when the receiver loop has read a frame with final=true for its
\* context id while the Event was registered, and false only when the
\* timeout elapsed with the Event not set; reading a final frame sets the
\* Event of that frame's context id and of no other.
C28_WaitForFinal == [][C28_Step]_vars /\ []C28_Released

C28_Witness ==
    /\ mw.waits[1] = "false"
    /\ mw.waits[2] = "true"
    /\ mw.frames = << [ctx |-> 2, final |-> TRUE] >>
    /\ mw.final_events[1] = "clear"

ClosedState == murf_closed /\ murf_ws = "none" /\ recv_task # "running"

CloseCalled ==
    /\ Len(mw'.calls) = Len(mw.calls) + 1
    /\ mw'.calls[Len(mw'.calls)].op = "close"

C29_Step ==
    CloseCalled =>
        /\ mw'.calls[Len(mw'.calls)].ret = "ok"
        /\ ClosedState'
        /\ recv_task = "running" => recv_task' = "cancelled"
        /\ ClosedState =>
              /\ murf_ws' = murf_ws /\ recv_task' = recv_task /\ murf_closed' = murf_closed
              /\ murf_conns' = murf_conns /\ mw'.final_events = mw.final_events
              /\ mw'.waits = mw.waits /\ mw'.frames = mw.frames

\* C29: every call of close(), whatever the connection state and whether or
\* not the socket's own close raises, returns normally and leaves the client
\* closed with no connection handle and no running receiver task; a call on
\* a client already in that state changes nothing.
C29_CloseIdempotent == [][C29_Step]_vars

C29_Witness ==
    /\ Len(mw.calls) = 5
    /\ mw.calls[2].op = "connect" /\ mw.calls[2].ret = "ok"
    /\ mw.calls[3].op = "start_receiver"
    /\ mw.calls[4].op = "close" /\ mw.calls[5].op = "close"
    /\ ClosedState
    /\ recv_task = "cancelled"

(***************************************************************************)
(* C25, C26, C27, C30: StreamingSTTService                                 *)
(***************************************************************************)
StopReturned ==
    /\ Len(stt'.stops) = Len(stt.stops) + 1
    /\ stt'.stops[Len(stt'.stops)].ret = "summary"

SttStarted(sid) == \E k \in SttObjs : stt.objs[k].sess = sid

C25_AudioToOwnConnection ==
    \A i \in 1..Len(stt.audio) :
        (SttStarted(stt.audio[i].sess) /\ stt.audio[i].to # 0)
        => stt.objs[stt.audio[i].to].sess = stt.audio[i].sess

C25_StopStep ==
    (StopReturned /\ SttStarted(stt'.stops[Len(stt'.stops)].sess)) =>
        \A k \in SttObjs :
            (stt.objs[k].state = "connected"
                /\ stt.objs[k].sess # stt'.stops[Len(stt'.stops)].sess)
            => stt'.objs[k].state = "connected"

\* C25: audio sent for a started session reaches only the connection opened
\* for that session, and stopping one session leaves the open connection of
\* every other session open.
C25_OwnConnectionPerSession == []C25_AudioToOwnConnection /\ [][C25_StopStep]_vars

\* C26: every assignment to the service's attributes (is_streaming,
\* session_transcriptions, transcriber) is made on the event loop.
C26_OnlyLoopWrites == \A w \in stt.writes : w.thread = "loop"

\* the callbacks handed to the event loop so far, in the order of the hand-over
Scheduled == stt.delivered \o stt.queue

CallbacksOf(i) == SelectSeq(Scheduled, LAMBDA c : c.ev = i)

FinalThenTurn(i) ==
    LET e == stt.events[i]
    IN  CallbacksOf(i) = << [cb |-> "final", sess |-> e.sess, text |-> e.text, ev |-> i],
                            [cb |-> "turn", sess |-> e.sess, text |-> e.text, ev |-> i] >>

InArrivalOrder(q) == \A j \in 1..(Len(q) - 1) : q[j].ev <= q[j + 1].ev

C30_InactiveReturnsFalse ==
    \A i \in 1..Len(stt.audio) :
        ~stt.audio[i].active => (~stt.audio[i].ret /\ stt.audio[i].to = 0)

(***************************************************************************)
(* C31: stop_streaming_session                                             *)
(***************************************************************************)
RECURSIVE TextsOf(_)
TextsOf(q) == IF q = <<>> THEN <<>> ELSE <<Head(q).text>> \o TextsOf(Tail(q))

\* the texts of the final transcripts stored for sid, in arrival order
FinalsOf(sid) ==
    TextsOf(SelectSeq(stt.events,
                      LAMBDA e : /\ e.sess = sid /\ e.kind = "FinalTranscript"
                                 /\ Strip(e.text) # <<>> /\ e.live))

\* what is stored for a session is its final transcripts in arrival order
StoredInOrder ==
    \A sid \in SessionIds :
        stt.session_transcriptions[sid].present
        => stt.session_transcriptions[sid].items = FinalsOf(sid)

StopCalled == Len(stt'.stops) = Len(stt.stops) + 1

C31_Step ==
    StopCalled =>
        LET r == stt'.stops[Len(stt'.stops)]
            st == stt.session_transcriptions[r.sess]
        IN  /\ r.ret \in {"summary", "error"}
            /\ r.ret = "summary" =>
                  /\ r.items = IF st.present THEN st.items ELSE <<>>
                  /\ ~stt'.session_transcriptions[r.sess].present
            /\ r.ret = "error" => stt'.session_transcriptions = stt.session_transcriptions

C31_EveryStopSummary == StopCalled => stt'.stops[Len(stt'.stops)].ret = "summary"

\* C31: every stop_streaming_session returns a summary with every final
\* transcript stored for the session, in arrival order, and removes the
\* session's stored transcripts, so that called again it gives an empty
\* summary.
C31_StopSummary == []StoredInOrder /\ [][C31_Step /\ C31_EveryStopSummary]_vars

(***************************************************************************)
(* C32..: the connection again                                             *)
(***************************************************************************)
LlmEvent(m) == m.type \in {"llm_token", "llm_complete"}

\* C32: once a turn started on the session the connection switched to has
\* sent an llm_token or llm_complete event, no response task started earlier
\* for another session sends one.
C32_NoInterleavingAcrossSessions ==
    \A i, j \in 1..Len(ws_out) :
        (i < j /\ LlmEvent(ws_out[i]) /\ LlmEvent(ws_out[j])
            /\ tasks[ws_out[i].turn].sess # tasks[ws_out[j].turn].sess)
        => ws_out[i].turn <= ws_out[j].turn

StreamedTo(t) ==
    \E i \in 1..Len(audio_out) : audio_out[i].ctx = tasks[t].turn_context_id

FallbackSent(t) ==
    \E i \in 1..Len(ws_out) : ws_out[i].type = "tts_audio" /\ ws_out[i].turn = t

\* C33: no turn has both an audio_chunk event of its context and a fallback
\* tts_audio event sent to the client.
C33_StreamedOrFallback ==
    \A t \in Turns : tasks[t].pc # "none" => ~(StreamedTo(t) /\ FallbackSent(t))

\* C37: a wait_for_final called for a context whose final frame the receiver
\* loop has already read does not end with false.
C37_FinalSignalKept == \A c \in mw.late : mw.waits[c] # "false"

\* C34: every assistant entry appended belongs to a turn whose model stream
\* ran to normal exhaustion, and holds the concatenation of all its tokens.
C34_AssistantEntryIsComplete ==
    \A i \in 1..Len(append_log) :
        append_log[i].role = "assistant" =>
            /\ tasks[append_log[i].turn].exhausted
            /\ append_log[i].content = Join(tasks[append_log[i].turn].assembled)

C35_EndedStep ==
    recv_loop # "running" =>
        /\ append_log' = append_log
        /\ \A t \in Turns : tasks'[t].assembled = tasks[t].assembled

\* C35: once the receive loop of the connection has ended, no step takes a
\* further token from a model stream or appends an entry to a history.
C35_TasksStopAtExit == [][C35_EndedStep]_vars

C36_NonObjectStep ==
    (Len(rx_log') = Len(rx_log) + 1 /\ rx_log'[Len(rx_log')].kind = "text"
        /\ NonObject(rx_log'[Len(rx_log')])) =>
        /\ Len(ctl_out') = Len(ctl_out) + 1
        /\ ctl_out'[Len(ctl_out')].type = "error"
        /\ recv_loop' = "running"

\* C36: handling a text frame whose JSON value is not an object sends one
\* error event to the client and leaves the receive loop running.
C36_NonObjectIsAnsweredAndKept == [][C36_NonObjectStep]_vars

(***************************************************************************)
(* C38, C39: WebSocketManager                                              *)
(***************************************************************************)
WmCalled(op) == wm' # wm /\ wm'.last.op = op

C38_BroadcastStep ==
    WmCalled("broadcast_message") =>
        /\ ~wm'.last.raised
        /\ wm'.last.attempted = wm.active_connections \ {wm'.last.ws}

\* C38: broadcast_message attempts a send to every active connection other
\* than the excluded one and returns without raising, whichever sends fail.
C38_BroadcastReachesAll == [][C38_BroadcastStep]_vars

C39_DisconnectStep ==
    WmCalled("disconnect") =>
        LET ws == wm'.last.ws
            sc == wm'.session_connections
        IN  /\ ws \notin wm'.active_connections
            /\ wm'.connection_metadata[ws] = -1
            /\ \A i \in 1..Len(sc) : ws \notin sc[i].conns /\ sc[i].conns # {}

\* C39: after disconnect(ws) the socket is in none of active_connections,
\* connection_metadata and the sessions' connection sets, and no session id
\* maps to an empty set.
C39_DisconnectRemovesEverywhere == [][C39_DisconnectStep]_vars

(***************************************************************************)
(* The messages sent to the model                                          *)
(***************************************************************************)
\* the number of maximal runs of equal roles in a message list
RECURSIVE RoleRuns(_)
RoleRuns(messages) ==
    IF Len(messages) <= 1 THEN Len(messages)
    ELSE RoleRuns(Tail(messages))
         + (IF messages[1].role = messages[2].role THEN 0 ELSE 1)

LlmSent == llm.via # "none"

\* C40: for every prompt and every history, the message list sent to the
\* model starts with a system message and holds no two adjacent messages of
\* the same role: every run of consecutive same-role entries of the history
\* (and the prompt) has become one message.
C40_SystemFirstRolesAlternate ==
    LlmSent =>
        LET base == BaseMessages(llm.prompt, llm.history)
            sent == llm.messages
        IN  /\ sent # <<>>
            /\ sent[1].role = "system"
            /\ \A i \in 1..(Len(sent) - 1) : sent[i].role # sent[i + 1].role
            /\ Len(sent) = RoleRuns(base) + (IF base[1].role = "system" THEN 0 ELSE 1)

\* the two user entries left by an interrupted turn reach the model as one
C40_Witness ==
    /\ llm.via = "stream_chat"
    /\ Len(llm.history) = 3
    /\ llm.history[1].role = "assistant"
    /\ llm.history[2].role = "user"
    /\ llm.history[3].role = "user"
    /\ llm.messages = << SystemMessage, llm.history[1],
                         [role |-> "user",
                          content |-> WsStrip(llm.history[2].content \o <<"\n">>
                                              \o llm.history[3].content)] >>

=============================================================================
